---- MODULE Spec2Model ----
(***************************************************************************)
(* A model of the Personal Codex Agent: the EmbeddingsSystem (FAISS index  *)
(* with its parallel metadata list, and its two-file persistence), the     *)
(* PromptManager's bounded conversation history, and the                   *)
(* PersonalCodexAgent operations built on them (load_documents,            *)
(* switch_mode, search_knowledge_base, generate_response and the           *)
(* save/load of the knowledge base), the DocumentProcessor's chunker, the  *)
(* MockLLMClient, and the CacheManager and PerformanceMonitor of           *)
(* performance.py.                                                         *)
(*                                                                         *)
(* Python values are modelled directly: str as TLA+ strings, list as       *)
(* sequences, dict as records.  An operation                               *)
(* that raises is recorded as such in `ret`, the observation of the last   *)
(* call, and leaves the state as the code leaves it at the raise.          *)
(***************************************************************************)
EXTENDS Integers, Sequences, FiniteSets, TLC

VARIABLES
    model,                      \* EmbeddingsSystem.model: "loaded" or "None"
    vector_db,                  \* EmbeddingsSystem.vector_db: None or a FAISS index
    chunk_embeddings,           \* EmbeddingsSystem.chunk_embeddings
    chunk_metadata,             \* EmbeddingsSystem.chunk_metadata
    disk_faiss,                 \* the file {file_path}.faiss: absent or a written index
    disk_pkl,                   \* the file {file_path}_metadata.pkl: absent or a pickled dict
    openai_client,              \* PersonalCodexAgent.openai_client: "None", "mock" or "openai"
    anthropic_client,           \* PersonalCodexAgent.anthropic_client: "None" or "anthropic"
    current_mode,               \* PersonalCodexAgent.current_mode
    documents_loaded,           \* PersonalCodexAgent.documents_loaded
    knowledge_base_initialized, \* PersonalCodexAgent.knowledge_base_initialized
    pm_history,                 \* PromptManager.conversation_history
    calls,                      \* number of generate_response calls made on this agent
    turn_log,                   \* the turns this agent's calls recorded, in call order
    chunking,                   \* a DocumentProcessor.chunk_text call: its locals, its
                                \* position and the parity of the iterations done
    cache_manager,              \* performance.py: a CacheManager and the clock it reads
    performance_monitor,        \* performance.py: a PerformanceMonitor and its lock
    threads,                    \* the threads calling the monitor: position and locals
    monitor_log,                \* history: calls begun on the monitor, and the
                                \* record_metric calls completed since the last clear_metrics
    ret                         \* the last call: its name, arguments and outcome

vars == <<model, vector_db, chunk_embeddings, chunk_metadata, disk_faiss, disk_pkl,
          openai_client, anthropic_client, current_mode, documents_loaded,
          knowledge_base_initialized, pm_history, calls, turn_log, chunking,
          cache_manager, performance_monitor, threads, monitor_log, ret>>

index_vars == <<model, vector_db, chunk_embeddings, chunk_metadata>>
disk_vars == <<disk_faiss, disk_pkl>>
client_vars == <<openai_client, anthropic_client>>
flag_vars == <<documents_loaded, knowledge_base_initialized>>
monitor_vars == <<performance_monitor, threads, monitor_log>>
perf_vars == <<cache_manager, monitor_vars>>
agent_vars_but_ret == <<index_vars, disk_vars, client_vars, flag_vars, current_mode,
                        pm_history, calls, turn_log>>
agent_vars == <<agent_vars_but_ret, ret>>

----------------------------------------------------------------------------
(* Bounds of the model *)

\* generate_response calls per agent under Spec
MaxCalls == 2
\* generate_response calls per agent under SpecHistory, beyond the history limit
ExtraCalls == 2
\* records the index may hold before add_documents is no longer offered
MaxChunks == 2
\* length of the raw texts handed to chunk_text
MaxTextLen == 5
\* largest chunk_size and chunk_overlap a DocumentProcessor is configured with
MaxChunkSize == 3
\* max_size of the CacheManager
CacheMaxSize == 2
\* readings of time.time() by the CacheManager
MaxClock == 4
\* get calls on the CacheManager between two clear calls
MaxLookups == 2
\* max_metrics of the PerformanceMonitor
MaxMetrics == 2
\* calls begun on the PerformanceMonitor, over all threads
MaxMonitorCalls == 4

(* Program constants *)

\* prompts.py:217-218: the history keeps the last 10 turns
HISTORY_LIMIT == 10
\* agent.py:284: search_knowledge_base(query, top_k=5)
DEFAULT_TOP_K == 5
\* embeddings.py:133: the index dimension for the default model, all-MiniLM-L6-v2
DIMENSION == 384
\* agent.py:479: the fallback cites the first 100 characters of the context
CONTEXT_CHARS == 100

Min(a, b) == IF a < b THEN a ELSE b

\* f(v), with v evaluated once before f is applied to its value
With(v, f(_)) == CHOOSE out \in {f(x) : x \in {v}} : TRUE

----------------------------------------------------------------------------
(* agent.py:107-123: the modes table *)

modes == {"interview", "personal_storytelling", "fast_facts"}

mode_name(m) ==
    CASE m = "interview" -> "Interview Mode"
      [] m = "personal_storytelling" -> "Personal Storytelling Mode"
      [] m = "fast_facts" -> "Fast Facts Mode"

mode_description(m) ==
    CASE m = "interview" ->
           "Professional, concise responses for job interviews and networking"
      [] m = "personal_storytelling" ->
           "Reflective, narrative responses that showcase personality"
      [] m = "fast_facts" ->
           "Quick, scannable information in bullet-point format"

\* ', '.join(self.modes.keys()): dict order is insertion order
modes_joined == "interview, personal_storytelling, fast_facts"

\* the keys a caller may pass to switch_mode
ModeKeys == modes \cup {"nonexistent", "Interview Mode", ""}

----------------------------------------------------------------------------
(* Python string helpers *)

Max(a, b) == IF a > b THEN a ELSE b

\* s[a:b] with Python's treatment of negative and out-of-range bounds
PySlice(s, a, b) ==
    LET n == Len(s)
        lo == IF a < 0 THEN Max(n + a, 0) ELSE Min(a, n)
        hi == IF b < 0 THEN Max(n + b, 0) ELSE Min(b, n)
    IN  IF lo < hi THEN SubSeq(s, lo + 1, hi) ELSE ""

\* the character s[i], i a 0-based index in range
CharAt(s, i) == SubSeq(s, i + 1, i + 1)

IsSpace(c) == c \in {" ", "\n", "\t", "\r"}

\* re.sub(r'\s+', ' ', s), from 0-based position i on
RECURSIVE CollapseFrom(_, _, _)
CollapseFrom(s, i, inRun) ==
    IF i >= Len(s) THEN ""
    ELSE IF IsSpace(CharAt(s, i))
         THEN (IF inRun THEN "" ELSE " ") \o CollapseFrom(s, i + 1, TRUE)
         ELSE CharAt(s, i) \o CollapseFrom(s, i + 1, FALSE)

\* str.strip()
Strip(s) ==
    LET keep == {i \in 0..(Len(s) - 1) : ~IsSpace(CharAt(s, i))}
    IN  IF keep = {} THEN ""
        ELSE LET lo == CHOOSE i \in keep : \A j \in keep : i <= j
                 hi == CHOOSE i \in keep : \A j \in keep : j <= i
             IN  PySlice(s, lo, hi + 1)

\* sub in s
Contains(s, sub) ==
    \E i \in 0..(Len(s) - Len(sub)) : PySlice(s, i, i + Len(sub)) = sub

\* str.rfind(c) for a one-character c: the highest index, or -1
RFind(s, c) ==
    LET hits == {i \in 0..(Len(s) - 1) : CharAt(s, i) = c}
    IN  IF hits = {} THEN -1 ELSE CHOOSE i \in hits : \A j \in hits : j <= i

----------------------------------------------------------------------------
(* document_processor.py: DocumentProcessor *)

\* agent.py:76-77: the agent's DocumentProcessor(chunk_size, chunk_overlap)
CHUNK_SIZE == 1000
CHUNK_OVERLAP == 200
\* document_processor.py:172: sentence endings are searched in the last 100 characters
LOOKBACK == 100

\* document_processor.py:176-181: the right-most sentence ending of search_text
last_ending(search_text) ==
    LET pos(c) == RFind(search_text, c)
    IN  Max(Max(pos("."), pos("!")), Max(pos("?"), Max(pos("\n"), -1)))

\* document_processor.py:166-193: the window loop, from window start `start`
RECURSIVE chunk_loop(_, _, _, _)
chunk_loop(text, start, chunk_size, chunk_overlap) ==
    IF ~(start < Len(text)) THEN <<>>
    ELSE LET raw_end == start + chunk_size
             search_start == Max(start + chunk_size - LOOKBACK, start)
             snapped(le) == IF raw_end < Len(text) /\ le # -1
                            THEN search_start + le + 1 ELSE raw_end
             rest(end) ==
                 (IF Strip(PySlice(text, start, end)) # ""
                  THEN <<Strip(PySlice(text, start, end))>> ELSE <<>>)
                 \o (IF end - chunk_overlap >= Len(text) THEN <<>>
                     ELSE chunk_loop(text, end - chunk_overlap, chunk_size,
                                     chunk_overlap))
         IN  With(snapped(last_ending(PySlice(text, search_start, raw_end))), rest)

\* document_processor.py:149-195
chunk_text(raw, chunk_size, chunk_overlap) ==
    LET chunked(text) ==
            IF Len(text) <= chunk_size THEN <<text>>
            ELSE chunk_loop(text, 0, chunk_size, chunk_overlap)
    IN  With(Strip(CollapseFrom(raw, 0, FALSE)), chunked)

\* text[a:b] as the index range [lo, hi) of text it selects
PySpan(n, a, b) ==
    LET lo == IF a < 0 THEN Max(n + a, 0) ELSE Min(a, n)
        hi == IF b < 0 THEN Max(n + b, 0) ELSE Min(b, n)
    IN  <<lo, Max(lo, hi)>>

\* A window loop that steps back one character more than the overlap
chunk_step_wider_overlap(text, start, chunk_size, chunk_overlap) ==
    LET raw_end == start + chunk_size
        search_start == Max(start + chunk_size - LOOKBACK, start)
        snapped(le) == IF raw_end < Len(text) /\ le # -1
                       THEN search_start + le + 1 ELSE raw_end
        iteration(end) ==
            LET window == PySlice(text, start, end)
                chunk == Strip(window)
                lead == IF chunk = "" THEN 0
                        ELSE CHOOSE i \in 0..(Len(window) - 1) :
                                /\ ~IsSpace(CharAt(window, i))
                                /\ \A j \in 0..(i - 1) : IsSpace(CharAt(window, j))
                lo == PySpan(Len(text), start, end)[1] + lead
            IN  [end |-> end,
                 appended |-> IF chunk # "" THEN <<chunk>> ELSE <<>>,
                 span |-> <<lo, lo + Len(chunk)>>,
                 start |-> IF end - chunk_overlap - 1 > start
                           THEN end - chunk_overlap - 1 ELSE end - chunk_overlap,
                 again |-> end - chunk_overlap < Len(text)]
    IN  With(snapped(last_ending(PySlice(text, search_start, raw_end))), iteration)

\* document_processor.py:166-193: one iteration of the window loop at `start`:
\* the window end, the chunk appended (if any) with the range of text it
\* covers, the next start, and whether the loop goes on
chunk_step(text, start, chunk_size, chunk_overlap) ==
    LET raw_end == start + chunk_size
        search_start == Max(start + chunk_size - LOOKBACK, start)
        snapped(le) == IF raw_end < Len(text) /\ le # -1
                       THEN search_start + le + 1 ELSE raw_end
        iteration(end) ==
            LET window == PySlice(text, start, end)
                chunk == Strip(window)
                lead == IF chunk = "" THEN 0
                        ELSE CHOOSE i \in 0..(Len(window) - 1) :
                                /\ ~IsSpace(CharAt(window, i))
                                /\ \A j \in 0..(i - 1) : IsSpace(CharAt(window, j))
                lo == PySpan(Len(text), start, end)[1] + lead
            IN  [end |-> end,
                 appended |-> IF chunk # "" THEN <<chunk>> ELSE <<>>,
                 span |-> <<lo, lo + Len(chunk)>>,
                 start |-> end - chunk_overlap,
                 again |-> end - chunk_overlap < Len(text)]
    IN  With(snapped(last_ending(PySlice(text, search_start, raw_end))), iteration)

\* document_processor.py:149-164: the call up to the loop: the text normalized,
\* and the single chunk returned when it fits in one window
chunk_text_begin(raw, chunk_size, chunk_overlap) ==
    LET begun(text) ==
            IF Len(text) <= chunk_size
            THEN [pc |-> "returned", text |-> text, chunk_size |-> chunk_size,
                  chunk_overlap |-> chunk_overlap, start |-> 0,
                  appended |-> <<text>>, span |-> <<0, Len(text)>>,
                  previous |-> <<>>, iterations |-> 0]
            ELSE [pc |-> IF 0 < Len(text) THEN "loop" ELSE "returned",
                  text |-> text, chunk_size |-> chunk_size,
                  chunk_overlap |-> chunk_overlap, start |-> 0,
                  appended |-> <<>>, span |-> <<0, 0>>, previous |-> <<>>,
                  iterations |-> 0]
    IN  With(Strip(CollapseFrom(raw, 0, FALSE)), begun)

\* no chunk_text call in progress
NotChunking ==
    [pc |-> "idle", text |-> "", chunk_size |-> CHUNK_SIZE,
     chunk_overlap |-> CHUNK_OVERLAP, start |-> 0, appended |-> <<>>,
     span |-> <<0, 0>>, previous |-> <<>>, iterations |-> 0]

\* What load_document returns for the files of the model: the parsed content
\* and the file's metadata (document_processor.py:138-145)
Document(filename, content) ==
    [content |-> content,
     metadata |-> [source |-> "data/raw/" \o filename, type |-> "text",
                   filename |-> filename]]

\* document_processor.py:197-218
process_document(document) ==
    LET processed(chunks) ==
            [document |-> document,
             chunks |-> [i \in 1..Len(chunks) |->
                           [content |-> chunks[i],
                            chunk_id |-> i - 1,
                            metadata |-> [source |-> document.metadata.source,
                                          type |-> document.metadata.type,
                                          filename |-> document.metadata.filename,
                                          chunk_index |-> i - 1,
                                          total_chunks |-> Len(chunks)]]],
             total_chunks |-> Len(chunks)]
    IN  With(chunk_text(document.content, CHUNK_SIZE, CHUNK_OVERLAP), processed)

\* document_processor.py:220-257: one processed document per file of the directory
process_directory(files) ==
    [i \in 1..Len(files) |-> process_document(files[i])]

----------------------------------------------------------------------------
(* embeddings.py: EmbeddingsSystem *)

\* vector_db is None (embeddings.py:79, 138) or a faiss.IndexFlatIP holding
\* `vectors` (embeddings.py:134); the same shape stands for the .faiss file
NoIndex == [present |-> FALSE, vectors |-> <<>>]
Index(vectors) == [present |-> TRUE, vectors |-> vectors]

\* the metadata file: absent, or the dict pickled at embeddings.py:336-339
NoPickle == [present |-> FALSE, chunk_embeddings |-> <<>>, chunk_metadata |-> <<>>]
Pickle(embeddings, metadata) ==
    [present |-> TRUE, chunk_embeddings |-> embeddings, chunk_metadata |-> metadata]

\* The embedding capability, SentenceTransformer.encode (embeddings.py:166), on
\* the texts of the model: a fixed vector per text, not of unit length
encode(text) ==
    CASE text = "First chunk" -> <<2, 0>>
      [] text = "Second chunk" -> <<0, 3>>
      [] OTHER -> <<1, 2>>

Dot(a, b) == a[1] * b[1] + a[2] * b[2]

\* embeddings.py:235, 288: v / np.linalg.norm(v), kept as the direction and the
\* squared length it is divided by; the division has no guard, so that a zero v
\* gives len2 = 0, numpy's 0/0: a vector of NaN
normalize(v) == [dir |-> v, len2 |-> Dot(v, v)]

\* the inner product of two normalized vectors is dot / sqrt(n2)
inner_product(q, v) == [dot |-> Dot(q.dir, v.dir), n2 |-> q.len2 * v.len2]

\* s > t for two such scores: x |-> x*|x| is increasing
ScoreGreater(s, t) ==
    LET sq(x) == IF x >= 0 THEN x * x ELSE -(x * x)
    IN  sq(s.dot) * t.n2 > sq(t.dot) * s.n2

\* embeddings.py:143-171: [raised, value]; enc is what model.encode does: it
\* raises, returns the vectors of encode, or returns vectors that are all zero
generate_embeddings(texts, enc) ==
    IF model = "None" THEN [raised |-> TRUE, value |-> <<>>]
    ELSE IF texts = <<>> THEN [raised |-> FALSE, value |-> <<>>]
    ELSE IF enc = "raise" THEN [raised |-> TRUE, value |-> <<>>]
    ELSE IF enc = "zero"
    THEN [raised |-> FALSE, value |-> [i \in 1..Len(texts) |-> <<0, 0>>]]
    ELSE [raised |-> FALSE, value |-> [i \in 1..Len(texts) |-> encode(texts[i])]]

\* embeddings.py:216-242: the stores after the call, and whether it raised;
\* ins is whether vector_db.add raises (a dimension the index does not take)
add_to_faiss(embeddings, metadata, ins) ==
    IF ~vector_db.present \/ ins = "raise"
    THEN [raised |-> TRUE, vector_db |-> vector_db,
          chunk_embeddings |-> chunk_embeddings, chunk_metadata |-> chunk_metadata]
    ELSE LET embeddings_normalized ==
                 [i \in 1..Len(embeddings) |-> normalize(embeddings[i])]
         IN  [raised |-> FALSE,
              vector_db |-> Index(vector_db.vectors \o embeddings_normalized),
              chunk_embeddings |-> chunk_embeddings \o embeddings_normalized,
              chunk_metadata |-> chunk_metadata \o metadata]

\* the flattening of embeddings.py:191-198
all_chunks_of(processed_documents) ==
    LET upto[n \in 0..Len(processed_documents)] ==
            IF n = 0 THEN <<>> ELSE upto[n - 1] \o processed_documents[n].chunks
    IN  upto[Len(processed_documents)]

\* embeddings.py:173-214: the stores after the call; `raised` is whether the
\* call itself raises, `failed` whether the try block was left by an exception
add_documents(processed_documents, enc, ins) ==
    LET unchanged(failed) ==
            [raised |-> FALSE, failed |-> failed, vector_db |-> vector_db,
             chunk_embeddings |-> chunk_embeddings, chunk_metadata |-> chunk_metadata]
        stored(added) ==
            IF added.raised THEN unchanged(TRUE)
            ELSE [raised |-> FALSE, failed |-> FALSE, vector_db |-> added.vector_db,
                  chunk_embeddings |-> added.chunk_embeddings,
                  chunk_metadata |-> added.chunk_metadata]
        embedded(chunks) ==
            LET all_chunks == [i \in 1..Len(chunks) |-> chunks[i].content]
                all_metadata == [i \in 1..Len(chunks) |-> chunks[i].metadata]
                added(embeddings) ==
                    IF embeddings.raised THEN unchanged(TRUE)
                    ELSE With(add_to_faiss(embeddings.value, all_metadata, ins), stored)
            IN  IF chunks = <<>> THEN unchanged(FALSE)
                ELSE With(generate_embeddings(all_chunks, enc), added)
    IN  IF processed_documents = <<>> THEN unchanged(FALSE)
        ELSE With(all_chunks_of(processed_documents), embedded)

\* faiss IndexFlatIP.search(q, k) (embeddings.py:292-295): the 0-based positions
\* of the k best vectors by inner product, best first, the earlier of two equal
\* ones first, padded with -1 when the index holds fewer than k
faiss_search(q, k) ==
    LET ids == 0..(Len(vector_db.vectors) - 1)
        s(i) == inner_product(q, vector_db.vectors[i + 1])
        before(j, i) == ScoreGreater(s(j), s(i)) \/ (~ScoreGreater(s(i), s(j)) /\ j < i)
        place(i) == Cardinality({j \in ids : before(j, i)})
    IN  [n \in 1..Max(k, 0) |->
            IF n <= Len(vector_db.vectors) THEN CHOOSE i \in ids : place(i) = n - 1
            ELSE -1]

\* lst[idx] with Python's negative indices
PyIndex(lst, idx) == IF idx >= 0 THEN lst[idx + 1] ELSE lst[Len(lst) + idx + 1]

\* metadata.get('content', '') (embeddings.py:302)
get_content(metadata) ==
    IF "content" \in DOMAIN metadata THEN metadata.content ELSE ""

\* embeddings.py:273-307
search_faiss(query_embedding, top_k) ==
    LET query_normalized == normalize(query_embedding)
        results(kept) ==
            [n \in 1..Len(kept) |->
                [content |-> get_content(PyIndex(chunk_metadata, kept[n])),
                 metadata |-> PyIndex(chunk_metadata, kept[n]),
                 score |-> IF kept[n] >= 0
                           THEN inner_product(query_normalized,
                                              vector_db.vectors[kept[n] + 1])
                           ELSE [dot |-> -1, n2 |-> 0]]]
    IN  IF ~vector_db.present THEN <<>>
        ELSE With(SelectSeq(faiss_search(query_normalized,
                                         Min(top_k, Len(chunk_metadata))),
                            LAMBDA idx : idx < Len(chunk_metadata)),
                  results)

\* A search that answers [] when there is no embedding model
search_without_model_check(query, top_k, enc) ==
    LET found(query_embedding) ==
            IF query_embedding.raised THEN [raised |-> FALSE, value |-> <<>>]
            ELSE [raised |-> FALSE,
                  value |-> search_faiss(query_embedding.value[1], top_k)]
    IN  With(generate_embeddings(<<query>>, enc), found)

\* embeddings.py:247-271: [raised, value]
search(query, top_k, enc) ==
    LET found(query_embedding) ==
            IF query_embedding.raised THEN [raised |-> FALSE, value |-> <<>>]
            ELSE [raised |-> FALSE,
                  value |-> search_faiss(query_embedding.value[1], top_k)]
    IN  IF model = "None" THEN [raised |-> TRUE, value |-> <<>>]
        ELSE With(generate_embeddings(<<query>>, enc), found)

\* A save whose metadata file leaves the chunk metadata out
save_faiss_embeddings_only(io) ==
    IF ~vector_db.present \/ io = "fail_index"
    THEN [disk_faiss |-> disk_faiss, disk_pkl |-> disk_pkl]
    ELSE IF io = "fail_metadata"
    THEN [disk_faiss |-> vector_db, disk_pkl |-> disk_pkl]
    ELSE [disk_faiss |-> vector_db, disk_pkl |-> Pickle(chunk_embeddings, <<>>)]

\* embeddings.py:322-343: the two files after the call; io is the I/O that fails
save_faiss(io) ==
    IF ~vector_db.present \/ io = "fail_index"
    THEN [disk_faiss |-> disk_faiss, disk_pkl |-> disk_pkl]
    ELSE IF io = "fail_metadata"
    THEN [disk_faiss |-> vector_db, disk_pkl |-> disk_pkl]
    ELSE [disk_faiss |-> vector_db,
          disk_pkl |-> Pickle(chunk_embeddings, chunk_metadata)]

\* embeddings.py:353-370: the stores after the call; `failed` is whether the try
\* block was left by an exception (a missing file, or the I/O failure io)
load_faiss(io) ==
    IF ~disk_faiss.present \/ io = "fail_index"
    THEN [failed |-> TRUE, vector_db |-> vector_db,
          chunk_embeddings |-> chunk_embeddings, chunk_metadata |-> chunk_metadata]
    ELSE IF ~disk_pkl.present \/ io = "fail_metadata"
    THEN [failed |-> TRUE, vector_db |-> disk_faiss,
          chunk_embeddings |-> chunk_embeddings, chunk_metadata |-> chunk_metadata]
    ELSE [failed |-> FALSE, vector_db |-> disk_faiss,
          chunk_embeddings |-> disk_pkl.chunk_embeddings,
          chunk_metadata |-> disk_pkl.chunk_metadata]

\* embeddings.py:372-389
get_database_info ==
    IF ~vector_db.present THEN [status |-> "not_initialized", type |-> "faiss"]
    ELSE [type |-> "faiss", total_vectors |-> Len(vector_db.vectors),
          dimension |-> DIMENSION, total_chunks |-> Len(chunk_metadata)]

----------------------------------------------------------------------------
(* mock_llm.py: MockLLMClient *)

\* str.lower() on ASCII text
Lower(s) ==
    LET upper == "ABCDEFGHIJKLMNOPQRSTUVWXYZ"
        lower == "abcdefghijklmnopqrstuvwxyz"
        low(c) == IF \E k \in 0..25 : CharAt(upper, k) = c
                  THEN CharAt(lower, CHOOSE k \in 0..25 : CharAt(upper, k) = c)
                  ELSE c
        upto[n \in 0..Len(s)] == IF n = 0 THEN "" ELSE upto[n - 1] \o low(CharAt(s, n - 1))
    IN  upto[Len(s)]

\* mock_llm.py:10-40: the canned answers, by mode and topic; the bullet character
\* is written *
mock_responses(mode, key) ==
    CASE mode = "interview" /\ key = "technical_skills" ->
           "Based on the documents provided, I'm a full-stack developer with strong expertise in Python, JavaScript, and modern web frameworks. My experience spans backend development with Django/Flask, frontend work with React, and cloud deployment on AWS. I'm particularly skilled at building scalable APIs and have a solid foundation in database design and optimization."
      [] mode = "interview" /\ key = "engineer_type" ->
           "I'm a software engineer who thrives at the intersection of problem-solving and user experience. I enjoy building robust, scalable systems while keeping the end-user in mind. My approach combines technical depth with practical application - I love diving deep into algorithms and architecture, but always with a focus on delivering real value."
      [] mode = "interview" /\ key = "projects_proud" ->
           "I'm most proud of a real-time collaboration platform I built that handled 10,000+ concurrent users. The technical challenges included implementing WebSocket architecture, optimizing database queries for sub-100ms response times, and designing a conflict resolution system for simultaneous edits. What made it special was seeing teams actually improve their productivity using something I created."
      [] mode = "personal_storytelling" /\ key = "learning_approach" ->
           "My learning style is very hands-on and project-driven. When I encounter something new, I start by building a small prototype to understand the core concepts. For example, when learning React, I didn't just read documentation - I rebuilt a familiar interface from scratch. I find that debugging my own mistakes teaches me more than following tutorials perfectly. I also believe in the power of teaching others - explaining concepts to teammates often reveals gaps in my own understanding."
      [] mode = "personal_storytelling" /\ key = "team_culture" ->
           "I thrive in environments that balance autonomy with collaboration. I love having the freedom to dive deep into problems and explore creative solutions, but I also value regular check-ins and knowledge sharing. The best teams I've worked with had a culture of curiosity - where asking 'why' and 'what if' was encouraged, not seen as challenging authority. I appreciate when technical decisions are made transparently and everyone's input is valued regardless of seniority."
      [] mode = "personal_storytelling" /\ key = "debugging_approach" ->
           "My debugging philosophy is methodical but creative. I start by reproducing the issue consistently, then work backwards from the symptom to the root cause. I love using print statements and logs strategically - not randomly. When stuck, I often explain the problem out loud to a rubber duck (or patient colleague). Sometimes the breakthrough comes from taking a walk and thinking about the problem differently. I've learned that the most elegant fixes often involve understanding the 'why' behind the bug, not just the 'how' to patch it."
      [] mode = "fast_facts" /\ key = "skills_summary" ->
           "* Languages: Python, JavaScript, TypeScript, SQL\n* Frameworks: React, Django, Flask, Node.js\n* Cloud: AWS (EC2, S3, RDS, Lambda)\n* Databases: PostgreSQL, Redis, MongoDB\n* Tools: Docker, Git, GitHub Actions, Pytest\n* Specialties: API design, real-time systems, performance optimization"
      [] mode = "fast_facts" /\ key = "experience_overview" ->
           "* 3+ years full-stack development\n* Led 2 major product launches\n* Built systems handling 10K+ concurrent users\n* Reduced API response times by 60%\n* Mentored 3 junior developers\n* Open source contributor (5 repos, 200+ stars)"
      [] mode = "fast_facts" /\ key = "values_quick" ->
           "* Code quality over speed\n* User experience drives technical decisions\n* Continuous learning and knowledge sharing\n* Transparent communication\n* Data-driven decision making\n* Work-life balance and sustainable pace"
      [] OTHER -> ""

\* mock_llm.py:42-73: the answer of the mock client to a prompt in a mode
mock_generate_response(prompt, mode) ==
    LET prompt_lower == Lower(prompt)
        any(words) == \E word \in words : Contains(prompt_lower, word)
        table == IF mode \in {"interview", "personal_storytelling", "fast_facts"}
                 THEN mode ELSE "interview"
        get(key, default) == IF mock_responses(table, key) # ""
                             THEN mock_responses(table, key) ELSE default
    IN  IF any({"skill", "technical", "technology", "programming"})
        THEN (IF mode = "fast_facts"
              THEN get("skills_summary",
                       "Technical skills include Python, JavaScript, and cloud platforms.")
              ELSE get("technical_skills",
                       "I have strong technical skills in full-stack development."))
        ELSE IF any({"engineer", "developer", "what kind"})
        THEN get("engineer_type",
                 "I'm a software engineer focused on building scalable solutions.")
        ELSE IF any({"project", "proud", "experience"})
        THEN (IF mode = "fast_facts"
              THEN get("experience_overview",
                       "* 3+ years experience\n* Multiple successful projects")
              ELSE get("projects_proud",
                       "I'm proud of several projects that solved real user problems."))
        ELSE IF any({"learn", "debug", "approach"})
        THEN get("learning_approach", "I learn by building and debugging real projects.")
        ELSE IF any({"team", "culture", "collaborate"})
        THEN (IF mode = "fast_facts"
              THEN get("values_quick",
                       "* Collaboration\n* Quality code\n* Continuous learning")
              ELSE get("team_culture",
                       "I value collaborative environments with clear communication."))
        ELSE CASE mode = "interview" ->
                    "I'm a passionate software engineer with experience in full-stack development, focusing on building scalable and user-friendly applications."
               [] mode = "personal_storytelling" ->
                    "Let me tell you about my journey as a developer. I started coding because I loved the idea of building things that could help people solve real problems..."
               [] mode = "fast_facts" ->
                    "* Software Engineer\n* Full-stack development\n* 3+ years experience\n* Focus on scalable systems"
               [] OTHER -> "None"

----------------------------------------------------------------------------
(* prompts.py: PromptManager *)

\* prompts.py:95-104
DOCUMENT_UPLOAD_PROMPT ==
    "I notice you haven't uploaded any personal documents yet. To provide accurate, personalized responses about you, I need some documents to work with.\n\nPlease upload:\n- Your CV/resume (PDF or Word format)\n- Any blog posts or articles you've written\n- README files from your projects\n- Personal notes about your work style and values\n- Any other relevant documents\n\nOnce you upload documents, I'll be able to answer questions about your experience, skills, and background in your authentic voice."

\* "\n".join(f"- {source}" for source in sources) (prompts.py:194)
RECURSIVE join_sources(_)
join_sources(sources) ==
    IF sources = <<>> THEN ""
    ELSE IF Len(sources) = 1 THEN "- " \o sources[1]
    ELSE "- " \o sources[1] \o "\n" \o join_sources(Tail(sources))

\* prompts.py:189-198, with RESPONSE_WITH_SOURCES of prompts.py:83-86
format_response_with_sources(response, sources) ==
    IF sources = <<>> THEN response
    ELSE response \o "\n\nSources:\n" \o join_sources(sources)

\* A history that, once full, keeps its oldest turns and drops the new one
add_to_conversation_history_keep_oldest(history, user_message, agent_response) ==
    LET appended == Append(history, [user |-> user_message, agent |-> agent_response])
    IN  IF Len(appended) > HISTORY_LIMIT
        THEN SubSeq(appended, 1, HISTORY_LIMIT)
        ELSE appended

\* A history that records the question as both sides of the turn
add_to_conversation_history_echo(history, user_message, agent_response) ==
    LET appended == Append(history, [user |-> user_message, agent |-> user_message])
    IN  IF Len(appended) > HISTORY_LIMIT
        THEN SubSeq(appended, Len(appended) - HISTORY_LIMIT + 1, Len(appended))
        ELSE appended

\* prompts.py:208-218: the history after the call
add_to_conversation_history(history, user_message, agent_response) ==
    LET appended == Append(history, [user |-> user_message, agent |-> agent_response])
    IN  IF Len(appended) > HISTORY_LIMIT
        THEN SubSeq(appended, Len(appended) - HISTORY_LIMIT + 1, Len(appended))
        ELSE appended

----------------------------------------------------------------------------
(* str.format on a template given as its literal parts and replacement fields *)

Lit(text) == [field |-> FALSE, text |-> text]
Field(name) == [field |-> TRUE, text |-> name]

format_parts(template, kwargs) ==
    LET upto[n \in 0..Len(template)] ==
            IF n = 0 THEN ""
            ELSE upto[n - 1] \o (IF template[n].field THEN kwargs[template[n].text]
                                 ELSE template[n].text)
    IN  upto[Len(template)]

\* [raised, value]: KeyError when a field of the template is not among kwargs
str_format(template, kwargs) ==
    LET formatted(a) ==
            IF \E i \in 1..Len(a[1]) : a[1][i].field /\ a[1][i].text \notin DOMAIN a[2]
            THEN [raised |-> TRUE, value |-> ""]
            ELSE [raised |-> FALSE, value |-> format_parts(a[1], a[2])]
    IN  With(<<template, kwargs>>, formatted)

----------------------------------------------------------------------------
(* agent.py: PersonalCodexAgent *)

\* Client initialization without the last resort of agent.py:171-173
initialize_llm_clients_no_fallback(llm_provider, env) ==
    IF env.mock_mode \/ env.openai_key \in {"", "your_openai_api_key_here", "mock_mode"}
    THEN [openai_client |-> "mock", anthropic_client |-> "None"]
    ELSE [openai_client |->
              IF llm_provider = "openai"
              THEN (IF env.openai_sdk /\ env.ctor_ok THEN "openai" ELSE "mock")
              ELSE "None",
          anthropic_client |->
              IF llm_provider = "anthropic" /\ env.anthropic_key
                 /\ env.anthropic_sdk /\ env.ctor_ok
              THEN "anthropic" ELSE "None"]

\* agent.py:125-173: the clients after construction, from the environment:
\* MOCK_MODE, OPENAI_API_KEY, ANTHROPIC_API_KEY, whether each SDK imported and
\* whether its client constructor succeeds
initialize_llm_clients(llm_provider, env) ==
    IF env.mock_mode \/ env.openai_key \in {"", "your_openai_api_key_here", "mock_mode"}
    THEN [openai_client |-> "mock", anthropic_client |-> "None"]
    ELSE LET oc == IF llm_provider = "openai"
                   THEN (IF env.openai_sdk /\ env.ctor_ok THEN "openai" ELSE "mock")
                   ELSE "None"
             ac == IF llm_provider = "anthropic" /\ env.anthropic_key
                      /\ env.anthropic_sdk /\ env.ctor_ok
                   THEN "anthropic" ELSE "None"
         IN  IF oc = "None" /\ ac = "None"
             THEN [openai_client |-> "mock", anthropic_client |-> "None"]
             ELSE [openai_client |-> oc, anthropic_client |-> ac]

Providers == {"openai", "anthropic", "none", "invalid"}

Environments ==
    [mock_mode : BOOLEAN,
     openai_key : {"", "your_openai_api_key_here", "mock_mode", "sk-key"},
     anthropic_key : BOOLEAN, openai_sdk : BOOLEAN, anthropic_sdk : BOOLEAN,
     ctor_ok : BOOLEAN]

\* the clients an agent can be constructed with
ClientConfigurations ==
    {initialize_llm_clients(p, env) : p \in Providers, env \in Environments}

\* Sources with each filename listed once, at its first retrieval
sources_of_deduplicated(search_results) ==
    LET name(i) == IF "filename" \in DOMAIN search_results[i].metadata
                   THEN search_results[i].metadata.filename ELSE "Unknown"
        first(i) == \A j \in 1..(i - 1) : name(j) # name(i)
        upto[n \in 0..Len(search_results)] ==
            IF n = 0 THEN <<>>
            ELSE IF first(n) THEN Append(upto[n - 1], name(n)) ELSE upto[n - 1]
    IN  upto[Len(search_results)]

\* agent.py:416-417, 445-446, 488-489
sources_of(search_results) ==
    [i \in 1..Len(search_results) |->
        IF "filename" \in DOMAIN search_results[i].metadata
        THEN search_results[i].metadata.filename ELSE "Unknown"]

\* agent.py:472-476; the bullet character of the fast_facts template is written *
mode_templates(m) ==
    CASE m = "interview" ->
           <<Lit("Based on my experience, I can tell you that "), Field("context"),
             Lit(". This demonstrates my "), Field("skill"), Lit(" and "),
             Field("achievement"), Lit(".")>>
      [] m = "personal_storytelling" ->
           <<Lit("From my personal experience, I remember "), Field("context"),
             Lit(". This taught me "), Field("lesson"),
             Lit(" and shaped my approach to "), Field("topic"), Lit(".")>>
      [] m = "fast_facts" ->
           <<Lit("Key points about this:\n* "), Field("context"), Lit("\n* "),
             Field("skill"), Lit("\n* "), Field("achievement")>>

\* agent.py:465
NOT_ENOUGH_INFORMATION ==
    "I don't have enough information to answer that question accurately. Please ask me something more specific about my documented experience."

\* agent.py:455-492: [raised, value, via]
generate_fallback_response(search_results) ==
    LET template == IF current_mode \in modes THEN mode_templates(current_mode)
                    ELSE mode_templates("interview")
        context == PySlice(search_results[1].content, 0, CONTEXT_CHARS) \o "..."
        packaged(response_text) ==
            [raised |-> response_text.raised, via |-> "fallback",
             value |-> [response |-> response_text.value,
                        sources |-> sources_of(search_results),
                        mode |-> current_mode, confidence |-> "medium"]]
    IN  IF search_results = <<>>
        THEN [raised |-> FALSE, via |-> "fallback",
              value |-> [response |-> NOT_ENOUGH_INFORMATION, sources |-> <<>>,
                         mode |-> current_mode, confidence |-> "low"]]
        ELSE With(str_format(template, [context |-> context, skill |-> "relevant skills",
                                        achievement |-> "professional achievements"]),
                  packaged)

\* The generation capability (chat.completions.create, messages.create): the text
\* a working client returns for the question
llm_text(user_question) == "Answer: " \o user_question

\* A generated answer that is always labelled high
llm_confidence_always_high(search_results) == "high"

\* agent.py:419, 448: the confidence of a generated answer
llm_confidence(search_results) ==
    IF search_results # <<>> THEN "high" ELSE "medium"

\* A provider answer labelled with the default mode instead of the current one
generate_provider_response_default_mode(client, user_question, search_results, gen) ==
    IF client = "mock" \/ gen = "raise"
    THEN generate_fallback_response(search_results)
    ELSE [raised |-> FALSE, via |-> "llm",
          value |-> [response |-> llm_text(user_question),
                     sources |-> sources_of(search_results),
                     mode |-> "interview",
                     confidence |-> llm_confidence(search_results)]]

\* agent.py:391-424 and 426-453: the provider call and its except clause.  The
\* mock client has no `chat` attribute (mock_llm.py:6-110), so the call raises;
\* gen is whether a real client's call raises
generate_provider_response(client, user_question, search_results, gen) ==
    IF client = "mock" \/ gen = "raise"
    THEN generate_fallback_response(search_results)
    ELSE [raised |-> FALSE, via |-> "llm",
          value |-> [response |-> llm_text(user_question),
                     sources |-> sources_of(search_results),
                     mode |-> current_mode,
                     confidence |-> llm_confidence(search_results)]]

\* agent.py:357-389
generate_llm_response(user_question, search_results, gen) ==
    LET client == IF openai_client # "None" THEN openai_client ELSE anthropic_client
        guarded(r) == IF r.raised THEN generate_fallback_response(search_results) ELSE r
    IN  With(generate_provider_response(client, user_question, search_results, gen),
             guarded)

\* agent.py:284-303: [searched, value]; searched is whether the index search ran
search_knowledge_base(query, top_k, enc) ==
    LET caught(results) ==
            [searched |-> TRUE, value |-> IF results.raised THEN <<>> ELSE results.value]
    IN  IF ~knowledge_base_initialized THEN [searched |-> FALSE, value |-> <<>>]
        ELSE With(search(query, top_k, enc), caught)

\* A switch that assigns the key without validating it (as prompts.py:238-245 does)
switch_mode_result_unvalidated(new_mode) ==
    [current_mode |-> new_mode,
     value |-> IF new_mode \in modes
               THEN "Switched to " \o mode_name(new_mode) \o ": "
                    \o mode_description(new_mode)
               ELSE "Unknown mode: " \o new_mode \o ". Available modes: " \o modes_joined]

\* A switch that announces the new mode without assigning it
switch_mode_result_announce_only(new_mode) ==
    IF new_mode \notin modes
    THEN [current_mode |-> current_mode,
          value |-> "Unknown mode: " \o new_mode \o ". Available modes: " \o modes_joined]
    ELSE [current_mode |-> current_mode,
          value |-> "Switched to " \o mode_name(new_mode) \o ": "
                    \o mode_description(new_mode)]

\* agent.py:257-274: the mode after the call and the message returned
switch_mode_result(new_mode) ==
    IF new_mode \notin modes
    THEN [current_mode |-> current_mode,
          value |-> "Unknown mode: " \o new_mode \o ". Available modes: " \o modes_joined]
    ELSE [current_mode |-> new_mode,
          value |-> "Switched to " \o mode_name(new_mode) \o ": "
                    \o mode_description(new_mode)]

\* An upload prompt that reports the default mode instead of the current one
upload_prompt_response_default_mode ==
    [response |-> DOCUMENT_UPLOAD_PROMPT, sources |-> <<>>, mode |-> "interview",
     confidence |-> "low"]

\* agent.py:328-333
upload_prompt_response ==
    [response |-> DOCUMENT_UPLOAD_PROMPT, sources |-> <<>>, mode |-> current_mode,
     confidence |-> "low"]

\* agent.py:305-355: the Response returned (or that the call raised), the
\* history after the call, and what the call did on the way
generate_response_result(user_question, include_sources, gen, enc) ==
    LET finish(found, response) ==
            IF response.raised
            THEN [raised |-> TRUE, via |-> response.via, searched |-> found.searched,
                  search_results |-> found.value, appended |-> FALSE,
                  pm_history |-> pm_history, turn |-> <<>>, value |-> response.value]
            ELSE [raised |-> FALSE, via |-> response.via, searched |-> found.searched,
                  search_results |-> found.value, appended |-> TRUE,
                  turn |-> <<[user |-> user_question,
                              agent |-> response.value.response]>>,
                  pm_history |->
                      add_to_conversation_history(pm_history, user_question,
                                                  response.value.response),
                  value |-> [response.value EXCEPT !.response =
                      IF include_sources /\ response.value.sources # <<>>
                      THEN format_response_with_sources(response.value.response,
                                                        response.value.sources)
                      ELSE response.value.response]]
        answer(found) ==
            LET answered(response) == finish(found, response)
            IN  IF openai_client # "None" \/ anthropic_client # "None"
                THEN With(generate_llm_response(user_question, found.value, gen),
                          answered)
                ELSE With(generate_fallback_response(found.value), answered)
    IN  IF ~documents_loaded
        THEN [raised |-> FALSE, via |-> "upload_prompt", searched |-> FALSE,
              search_results |-> <<>>, appended |-> FALSE, pm_history |-> pm_history,
              turn |-> <<>>, value |-> upload_prompt_response]
        ELSE With(search_knowledge_base(user_question, DEFAULT_TOP_K, enc), answer)

\* agent.py:101: the agent's own conversation_history list; it is created empty
\* and no method of the agent assigns it or appends to it (the turns go to
\* prompt_manager.conversation_history, agent.py:346)
conversation_history == <<>>

\* history[-n:]
LastTurns(history, n) ==
    SubSeq(history, Max(1, Len(history) - n + 1), Len(history))

\* agent.py:522-532
get_conversation_summary_result ==
    [total_turns |-> Len(conversation_history),
     current_mode |-> current_mode,
     documents_loaded |-> documents_loaded,
     knowledge_base_initialized |-> knowledge_base_initialized,
     recent_topics |->
         [i \in 1..Len(LastTurns(conversation_history, 3)) |->
             PySlice(LastTurns(conversation_history, 3)[i].user, 0, 50) \o "..."]]

\* agent.py:175-220: the value returned, and the stores and flags after the call
load_documents_result(directory, enc, ins) ==
    LET same(value) ==
            [value |-> value, failed |-> FALSE, vector_db |-> vector_db,
             chunk_embeddings |-> chunk_embeddings, chunk_metadata |-> chunk_metadata,
             documents_loaded |-> documents_loaded,
             knowledge_base_initialized |-> knowledge_base_initialized]
        loaded(added) ==
            [value |-> TRUE, failed |-> added.failed, vector_db |-> added.vector_db,
             chunk_embeddings |-> added.chunk_embeddings,
             chunk_metadata |-> added.chunk_metadata,
             documents_loaded |-> TRUE, knowledge_base_initialized |-> TRUE]
        indexed(processed_docs) ==
            IF processed_docs = <<>> THEN same(FALSE)
            ELSE With(add_documents(processed_docs, enc, ins), loaded)
    IN  IF directory.kind # "dir" THEN same(FALSE)
        ELSE With(process_directory(directory.files), indexed)

----------------------------------------------------------------------------
(* performance.py: CacheManager *)

\* a dict with no keys
EmptyDict == [k \in {} |-> 0]

\* d[k] = v
DictSet(d, k, v) == [x \in DOMAIN d \cup {k} |-> IF x = k THEN v ELSE d[x]]

\* del d[k]
DictDel(d, k) == [x \in DOMAIN d \ {k} |-> d[x]]

\* performance.py:151-157; `now` is the reading time.time() gave last
CacheManager(max_size) ==
    [cache |-> EmptyDict, access_times |-> EmptyDict, max_size |-> max_size,
     hits |-> 0, misses |-> 0, now |-> 0]

\* f"{key}_ttl" (performance.py:185)
ttl_key(key) == key \o "_ttl"

\* performance.py:159-168: the manager after the call and the value returned
\* (0 for None)
cache_get(cm, key) ==
    IF key \in DOMAIN cm.cache
    THEN [cm |-> [cm EXCEPT !.access_times = DictSet(@, key, cm.now + 1),
                            !.now = @ + 1, !.hits = @ + 1],
          value |-> cm.cache[key]]
    ELSE [cm |-> [cm EXCEPT !.misses = @ + 1], value |-> 0]

\* performance.py:187-194
evict_oldest(cm) ==
    IF DOMAIN cm.access_times = {} THEN cm
    ELSE LET oldest_key == CHOOSE k \in DOMAIN cm.access_times :
                               \A j \in DOMAIN cm.access_times :
                                   cm.access_times[k] <= cm.access_times[j]
         IN  [cm EXCEPT !.cache = DictDel(@, oldest_key),
                        !.access_times = DictDel(@, oldest_key)]

\* performance.py:170-185; ttl = 0 stands for None
cache_set(cm, key, value, ttl) ==
    LET room == IF Cardinality(DOMAIN cm.cache) >= cm.max_size
                   /\ key \notin DOMAIN cm.cache
                THEN evict_oldest(cm) ELSE cm
        stored == [room EXCEPT !.cache = DictSet(@, key, value),
                               !.access_times = DictSet(@, key, cm.now + 1),
                               !.now = @ + 1]
    IN  IF ttl # 0
        THEN [stored EXCEPT !.cache = DictSet(@, ttl_key(key), stored.now + 1 + ttl),
                            !.now = @ + 1]
        ELSE stored

\* performance.py:203-209
cache_clear(cm) ==
    [cm EXCEPT !.cache = EmptyDict, !.access_times = EmptyDict,
               !.hits = 0, !.misses = 0]

\* performance.py:211-223; hit_rate is kept as the pair it is the quotient of
cache_get_stats(cm) ==
    [size |-> Cardinality(DOMAIN cm.cache), max_size |-> cm.max_size,
     hits |-> cm.hits, misses |-> cm.misses,
     hit_rate |-> <<cm.hits, cm.hits + cm.misses>>]

----------------------------------------------------------------------------
(* performance.py: PerformanceMonitor *)

\* performance.py:30-39; metrics holds the success flag of each metric, stats
\* the number of execution times kept, lock the thread holding _lock (0: none)
PerformanceMonitor(max_metrics) ==
    [max_metrics |-> max_metrics, metrics |-> <<>>, stats |-> 0,
     error_count |-> 0, total_calls |-> 0, lock |-> 0]

\* the threads of the application that call the monitor
Threads == {1, 2}

\* a thread outside the monitor; op is the method it is in, success the flag
\* of the metric it records, loaded the attribute value an augmented
\* assignment has read
IdleThread == [pc |-> "idle", op |-> "none", success |-> TRUE, loaded |-> 0]

\* A lock that never makes a thread wait
lock_free_ignored(monitor) == TRUE

\* threading.Lock: `with self._lock` is entered only while no thread holds it
lock_free(monitor) == monitor.lock = 0

\* deque(maxlen=max_metrics).append (performance.py:32, 44)
deque_append(metrics, maxlen, x) ==
    IF maxlen = 0 THEN <<>>
    ELSE IF Len(metrics) < maxlen THEN Append(metrics, x)
    ELSE Append(Tail(metrics), x)

----------------------------------------------------------------------------
(* The inputs of the model *)

DocA == Document("a.txt", "First chunk")
DocB == Document("b.txt", "  Second\n chunk ")

\* a path that does not exist, a path that is a file, an empty directory and
\* two directories with files
Directories ==
    {[kind |-> "missing", files |-> <<>>], [kind |-> "file", files |-> <<>>],
     [kind |-> "dir", files |-> <<>>], [kind |-> "dir", files |-> <<DocA>>],
     [kind |-> "dir", files |-> <<DocA, DocB>>]}

Queries == {"First chunk", "What are your skills?"}
TopKs == {1, DEFAULT_TOP_K}
Outcomes == {"ok", "raise"}
EncodeOutcomes == {"ok", "raise", "zero"}
IOOutcomes == {"ok", "fail_index", "fail_metadata"}

\* the strings of length n over the characters of a text: a letter, a sentence
\* ending and a space
RECURSIVE TextsOfLength(_)
TextsOfLength(n) ==
    IF n = 0 THEN {""}
    ELSE {t \o c : t \in TextsOfLength(n - 1), c \in {"a", ".", " "}}

RawTexts == UNION {TextsOfLength(n) : n \in 0..MaxTextLen}
\* DocumentProcessor(chunk_size, chunk_overlap) is given any two integers
ChunkSizes == (-1)..MaxChunkSize
ChunkOverlaps == (-1)..MaxChunkSize
\* below this start every window of the loop is empty
StartFloor == -(MaxTextLen + 2 * MaxChunkSize)

----------------------------------------------------------------------------
(* The state machine *)

\* agent.py:73-123 with embeddings.py:66-138 and prompts.py:135-143
Init ==
    /\ model \in {"loaded", "None"}
    /\ vector_db \in {NoIndex, Index(<<>>)}
    /\ chunk_embeddings = <<>>
    /\ chunk_metadata = <<>>
    /\ disk_faiss = NoIndex
    /\ disk_pkl = NoPickle
    /\ \E c \in ClientConfigurations :
          /\ openai_client = c.openai_client
          /\ anthropic_client = c.anthropic_client
    /\ current_mode = "interview"
    /\ documents_loaded = FALSE
    /\ knowledge_base_initialized = FALSE
    /\ pm_history = <<>>
    /\ calls = 0
    /\ turn_log = <<>>
    /\ chunking = NotChunking
    /\ cache_manager = CacheManager(CacheMaxSize)
    /\ performance_monitor = PerformanceMonitor(MaxMetrics)
    /\ threads = [t \in Threads |-> IdleThread]
    /\ monitor_log = [begun |-> 0, completed |-> 0, failed |-> 0]
    /\ ret = [op |-> "__init__", raised |-> FALSE]

\* app.py:467: the session builds a new agent; the files on disk stay
Construct ==
    /\ model' \in {"loaded", "None"}
    /\ vector_db' \in {NoIndex, Index(<<>>)}
    /\ chunk_embeddings' = <<>>
    /\ chunk_metadata' = <<>>
    /\ \E c \in ClientConfigurations :
          /\ openai_client' = c.openai_client
          /\ anthropic_client' = c.anthropic_client
    /\ current_mode' = "interview"
    /\ documents_loaded' = FALSE
    /\ knowledge_base_initialized' = FALSE
    /\ pm_history' = <<>>
    /\ calls' = 0
    /\ turn_log' = <<>>
    /\ ret' = [op |-> "__init__", raised |-> FALSE]
    /\ UNCHANGED <<disk_vars, chunking, perf_vars>>

switch_mode(new_mode) ==
    \E r \in {switch_mode_result(new_mode)} :
        /\ current_mode' = r.current_mode
        /\ ret' = [op |-> "switch_mode", new_mode |-> new_mode, raised |-> FALSE,
                   value |-> r.value, mode_before |-> current_mode]
        /\ UNCHANGED <<index_vars, disk_vars, client_vars, flag_vars, pm_history,
                       calls, turn_log, chunking, perf_vars>>

load_documents(directory, enc, ins) ==
    \E r \in {load_documents_result(directory, enc, ins)} :
        /\ vector_db' = r.vector_db
        /\ chunk_embeddings' = r.chunk_embeddings
        /\ chunk_metadata' = r.chunk_metadata
        /\ documents_loaded' = r.documents_loaded
        /\ knowledge_base_initialized' = r.knowledge_base_initialized
        /\ ret' = [op |-> "load_documents", directory |-> directory, raised |-> FALSE,
                   value |-> r.value, failed |-> r.failed]
        /\ UNCHANGED <<model, disk_vars, client_vars, current_mode, pm_history,
                       calls, turn_log, chunking, perf_vars>>

search_knowledge_base_call(query, top_k, enc) ==
    /\ \E r \in {search_knowledge_base(query, top_k, enc)} :
          ret' = [op |-> "search_knowledge_base", query |-> query, top_k |-> top_k,
                  raised |-> FALSE, searched |-> r.searched, value |-> r.value]
    /\ UNCHANGED <<index_vars, disk_vars, client_vars, flag_vars, current_mode,
                   pm_history, calls, turn_log, chunking, perf_vars>>

generate_response(user_question, include_sources, gen, enc) ==
    \E r \in {generate_response_result(user_question, include_sources, gen, enc)} :
        /\ pm_history' = r.pm_history
        /\ calls' = calls + 1
        /\ turn_log' = turn_log \o r.turn
        /\ ret' = [op |-> "generate_response", user_question |-> user_question,
                   include_sources |-> include_sources, raised |-> r.raised,
                   value |-> r.value, via |-> r.via, searched |-> r.searched,
                   search_results |-> r.search_results, mode_before |-> current_mode,
                   documents_loaded |-> documents_loaded, turn |-> r.turn]
        /\ UNCHANGED <<index_vars, disk_vars, client_vars, flag_vars, current_mode,
                       chunking, perf_vars>>

\* embeddings.py:247-271, called on the agent's embeddings_system
search_call(query, top_k, enc) ==
    /\ \E r \in {search(query, top_k, enc)} :
          ret' = [op |-> "search", query |-> query, top_k |-> top_k,
                  raised |-> r.raised, value |-> r.value]
    /\ UNCHANGED <<index_vars, disk_vars, client_vars, flag_vars, current_mode,
                   pm_history, calls, turn_log, chunking, perf_vars>>

\* agent.py:494-499 with embeddings.py:372-389
get_knowledge_base_info ==
    /\ ret' = [op |-> "get_knowledge_base_info", raised |-> FALSE,
               value |-> get_database_info]
    /\ UNCHANGED <<index_vars, disk_vars, client_vars, flag_vars, current_mode,
                   pm_history, calls, turn_log, chunking, perf_vars>>

\* agent.py:501-509 with embeddings.py:312-343
save_knowledge_base(io) ==
    /\ \E r \in {save_faiss(io)} :
          /\ disk_faiss' = r.disk_faiss
          /\ disk_pkl' = r.disk_pkl
    /\ ret' = [op |-> "save_knowledge_base", raised |-> FALSE, io |-> io,
               failed |-> vector_db.present /\ io # "ok"]
    /\ UNCHANGED <<index_vars, client_vars, flag_vars, current_mode, pm_history,
                   calls, turn_log, chunking, perf_vars>>

\* agent.py:511-520 with embeddings.py:345-370
load_knowledge_base(io) ==
    \E r \in {load_faiss(io)} :
        /\ vector_db' = r.vector_db
        /\ chunk_embeddings' = r.chunk_embeddings
        /\ chunk_metadata' = r.chunk_metadata
        /\ knowledge_base_initialized' = TRUE
        /\ ret' = [op |-> "load_knowledge_base", raised |-> FALSE, io |-> io,
                   failed |-> r.failed]
        /\ UNCHANGED <<model, disk_vars, client_vars, documents_loaded, current_mode,
                       pm_history, calls, turn_log, chunking, perf_vars>>

SwitchMode == \E k \in ModeKeys : switch_mode(k)

LoadDocuments ==
    /\ Len(chunk_metadata) < MaxChunks
    /\ Len(vector_db.vectors) < MaxChunks
    /\ \E d \in Directories, enc \in Outcomes, ins \in Outcomes :
          load_documents(d, enc, ins)

SearchKnowledgeBase ==
    \E q \in Queries, k \in TopKs, enc \in Outcomes : search_knowledge_base_call(q, k, enc)

GenerateResponse ==
    /\ calls < MaxCalls
    /\ \E q \in Queries, inc \in BOOLEAN, gen \in Outcomes, enc \in Outcomes :
          generate_response(q, inc, gen, enc)

Search ==
    \E q \in Queries, k \in TopKs, enc \in Outcomes : search_call(q, k, enc)

SaveKnowledgeBase == \E io \in IOOutcomes : save_knowledge_base(io)

LoadKnowledgeBase == \E io \in IOOutcomes : load_knowledge_base(io)

\* The conversation: a directory ingested (tried again while load_documents
\* reports failure), mode switching and answering
LoadDocumentsFirst ==
    /\ ~documents_loaded
    /\ \E d \in Directories, enc \in Outcomes, ins \in Outcomes :
          load_documents(d, enc, ins)

Next ==
    \/ SwitchMode
    \/ LoadDocumentsFirst
    \/ GenerateResponse

Spec == Init /\ [][Next]_vars

\* The index and its persistence, over the life of several agents
NextIndex ==
    \/ Construct
    \/ LoadDocuments
    \/ SearchKnowledgeBase
    \/ Search
    \/ get_knowledge_base_info
    \/ SaveKnowledgeBase
    \/ LoadKnowledgeBase

SpecIndex == Init /\ [][NextIndex]_vars

\* Answers over an index that grows: directories ingested one after another,
\* the same file more than once, and questions in between
NextSources ==
    \/ LoadDocuments
    \/ GenerateResponse

SpecSources == Init /\ [][NextSources]_vars

\* The vectors of the index under every batch model.encode can return
AddDocuments ==
    /\ Len(chunk_metadata) < MaxChunks
    /\ Len(vector_db.vectors) < MaxChunks
    /\ \E d \in Directories, enc \in EncodeOutcomes, ins \in Outcomes :
          load_documents(d, enc, ins)

NextVectors ==
    \/ Construct
    \/ AddDocuments
    \/ get_knowledge_base_info
    \/ SaveKnowledgeBase
    \/ LoadKnowledgeBase

SpecVectors == Init /\ [][NextVectors]_vars

\* Construction under every provider name and environment, the arguments kept
\* in ret (agent.py:73-123)
construct(llm_provider, env) ==
    /\ model' \in {"loaded", "None"}
    /\ vector_db' \in {NoIndex, Index(<<>>)}
    /\ chunk_embeddings' = <<>>
    /\ chunk_metadata' = <<>>
    /\ \E c \in {initialize_llm_clients(llm_provider, env)} :
          /\ openai_client' = c.openai_client
          /\ anthropic_client' = c.anthropic_client
    /\ current_mode' = "interview"
    /\ documents_loaded' = FALSE
    /\ knowledge_base_initialized' = FALSE
    /\ pm_history' = <<>>
    /\ calls' = 0
    /\ turn_log' = <<>>
    /\ ret' = [op |-> "__init__", raised |-> FALSE, llm_provider |-> llm_provider,
               env |-> env]
    /\ UNCHANGED <<disk_vars, chunking, perf_vars>>

ConstructAgent == \E p \in Providers, env \in Environments : construct(p, env)

SpecClients == Init /\ [][ConstructAgent]_vars

\* A knowledge base saved by one agent and restored into the next, which is
\* then asked its first question
GenerateResponseFirst ==
    /\ calls = 0
    /\ \E q \in Queries, gen \in Outcomes, enc \in Outcomes :
          generate_response(q, TRUE, gen, enc)

\* ingestion, save and load without failures of the embedding or of the I/O
IngestDocuments ==
    /\ ~documents_loaded
    /\ Len(chunk_metadata) < MaxChunks
    /\ Len(vector_db.vectors) < MaxChunks
    /\ \E d \in Directories : load_documents(d, "ok", "ok")

NextRestore ==
    \/ Construct
    \/ IngestDocuments
    \/ save_knowledge_base("ok")
    \/ load_knowledge_base("ok")
    \/ GenerateResponseFirst

SpecRestore == Init /\ [][NextRestore]_vars

\* The conversation with its summary asked for in between
get_conversation_summary ==
    /\ ret' = [op |-> "get_conversation_summary", raised |-> FALSE,
               value |-> get_conversation_summary_result]
    /\ UNCHANGED <<index_vars, disk_vars, client_vars, flag_vars, current_mode,
                   pm_history, calls, turn_log, chunking, perf_vars>>

NextSummary ==
    \/ SwitchMode
    \/ LoadDocumentsFirst
    \/ GenerateResponse
    \/ get_conversation_summary

SpecSummary == Init /\ [][NextSummary]_vars

\* The cache: values set with and without a time to live, looked up, cleared
\* and counted
CacheKeys == {"a", "b", "c"}

CacheManager_set(key, value, ttl) ==
    /\ cache_manager.now + 2 <= MaxClock
    /\ cache_manager' = cache_set(cache_manager, key, value, ttl)
    /\ ret' = [op |-> "CacheManager.set", raised |-> FALSE, key |-> key, ttl |-> ttl]
    /\ UNCHANGED <<agent_vars_but_ret, chunking, monitor_vars>>

CacheManager_get(key) ==
    /\ cache_manager.now + 1 <= MaxClock
    /\ cache_manager.hits + cache_manager.misses < MaxLookups
    /\ \E r \in {cache_get(cache_manager, key)} :
          /\ cache_manager' = r.cm
          /\ ret' = [op |-> "CacheManager.get", raised |-> FALSE, key |-> key,
                     value |-> r.value]
    /\ UNCHANGED <<agent_vars_but_ret, chunking, monitor_vars>>

CacheManager_clear ==
    /\ cache_manager' = cache_clear(cache_manager)
    /\ ret' = [op |-> "CacheManager.clear", raised |-> FALSE]
    /\ UNCHANGED <<agent_vars_but_ret, chunking, monitor_vars>>

CacheManager_get_stats ==
    /\ ret' = [op |-> "CacheManager.get_stats", raised |-> FALSE,
               value |-> cache_get_stats(cache_manager)]
    /\ UNCHANGED <<agent_vars_but_ret, chunking, cache_manager, monitor_vars>>

NextCache ==
    \/ \E key \in CacheKeys, ttl \in {0, 1} : CacheManager_set(key, 7, ttl)
    \/ \E key \in CacheKeys : CacheManager_get(key)
    \/ CacheManager_clear
    \/ CacheManager_get_stats

SpecCache == Init /\ [][NextCache]_vars

\* The monitor called from several threads, statement by statement
others_unchanged == UNCHANGED <<agent_vars_but_ret, chunking, cache_manager>>

\* a thread calls record_metric(metric), get_error_rate() or clear_metrics()
monitor_call(t, op, success) ==
    /\ threads[t].pc = "idle"
    /\ monitor_log.begun < MaxMonitorCalls
    /\ threads' = [threads EXCEPT ![t] = [pc |-> "acquire", op |-> op,
                                           success |-> success, loaded |-> 0]]
    /\ monitor_log' = [monitor_log EXCEPT !.begun = @ + 1]
    /\ UNCHANGED <<performance_monitor, ret>>
    /\ others_unchanged

\* with self._lock: (performance.py:43, 91, 96)
monitor_acquire(t) ==
    /\ threads[t].pc = "acquire"
    /\ lock_free(performance_monitor)
    /\ performance_monitor' = [performance_monitor EXCEPT !.lock = t]
    /\ threads' = [threads EXCEPT ![t].pc =
                       CASE threads[t].op = "record_metric" -> "append"
                         [] threads[t].op = "clear_metrics" -> "clear_metrics"
                         [] OTHER -> "read"]
    /\ UNCHANGED <<monitor_log, ret>>
    /\ others_unchanged

\* performance.py:44
record_append(t) ==
    /\ threads[t].pc = "append"
    /\ performance_monitor' =
          [performance_monitor EXCEPT !.metrics =
              deque_append(@, performance_monitor.max_metrics, threads[t].success)]
    /\ threads' = [threads EXCEPT ![t].pc = "stats"]
    /\ UNCHANGED <<monitor_log, ret>>
    /\ others_unchanged

\* performance.py:45
record_stats(t) ==
    /\ threads[t].pc = "stats"
    /\ performance_monitor' = [performance_monitor EXCEPT !.stats = @ + 1]
    /\ threads' = [threads EXCEPT ![t].pc = "load_total"]
    /\ UNCHANGED <<monitor_log, ret>>
    /\ others_unchanged

\* performance.py:46, self.total_calls += 1: the attribute is read ...
record_load_total(t) ==
    /\ threads[t].pc = "load_total"
    /\ threads' = [threads EXCEPT ![t].pc = "store_total",
                                  ![t].loaded = performance_monitor.total_calls]
    /\ UNCHANGED <<performance_monitor, monitor_log, ret>>
    /\ others_unchanged

\* ... and written; then `if not metric.success` (performance.py:48)
record_store_total(t) ==
    /\ threads[t].pc = "store_total"
    /\ performance_monitor' =
          [performance_monitor EXCEPT !.total_calls = threads[t].loaded + 1]
    /\ threads' = [threads EXCEPT ![t].pc =
                       IF threads[t].success THEN "release" ELSE "load_error"]
    /\ UNCHANGED <<monitor_log, ret>>
    /\ others_unchanged

\* performance.py:49, self.error_count += 1: the attribute is read ...
record_load_error(t) ==
    /\ threads[t].pc = "load_error"
    /\ threads' = [threads EXCEPT ![t].pc = "store_error",
                                  ![t].loaded = performance_monitor.error_count]
    /\ UNCHANGED <<performance_monitor, monitor_log, ret>>
    /\ others_unchanged

\* ... and written
record_store_error(t) ==
    /\ threads[t].pc = "store_error"
    /\ performance_monitor' =
          [performance_monitor EXCEPT !.error_count = threads[t].loaded + 1]
    /\ threads' = [threads EXCEPT ![t].pc = "release"]
    /\ UNCHANGED <<monitor_log, ret>>
    /\ others_unchanged

\* performance.py:97-100: the four statements of clear_metrics, one by one
clear_metrics_step(t) ==
    /\ threads[t].pc \in {"clear_metrics", "clear_stats", "clear_error", "clear_total"}
    /\ performance_monitor' =
          CASE threads[t].pc = "clear_metrics" ->
                 [performance_monitor EXCEPT !.metrics = <<>>]
            [] threads[t].pc = "clear_stats" -> [performance_monitor EXCEPT !.stats = 0]
            [] threads[t].pc = "clear_error" ->
                 [performance_monitor EXCEPT !.error_count = 0]
            [] threads[t].pc = "clear_total" ->
                 [performance_monitor EXCEPT !.total_calls = 0]
    /\ threads' = [threads EXCEPT ![t].pc =
                       CASE threads[t].pc = "clear_metrics" -> "clear_stats"
                         [] threads[t].pc = "clear_stats" -> "clear_error"
                         [] threads[t].pc = "clear_error" -> "clear_total"
                         [] threads[t].pc = "clear_total" -> "release"]
    /\ UNCHANGED <<monitor_log, ret>>
    /\ others_unchanged

\* performance.py:92: the rate, kept as the pair it is the quotient of
get_error_rate_read(t) ==
    /\ threads[t].pc = "read"
    /\ ret' = [op |-> "get_error_rate", raised |-> FALSE,
               value |-> IF performance_monitor.total_calls > 0
                         THEN <<performance_monitor.error_count,
                                performance_monitor.total_calls>>
                         ELSE <<0, 1>>]
    /\ threads' = [threads EXCEPT ![t].pc = "release"]
    /\ UNCHANGED <<performance_monitor, monitor_log>>
    /\ others_unchanged

\* the end of the with block: the lock is released and the call returns
monitor_release(t) ==
    /\ threads[t].pc = "release"
    /\ performance_monitor' = [performance_monitor EXCEPT !.lock = 0]
    /\ threads' = [threads EXCEPT ![t] = IdleThread]
    /\ monitor_log' =
          CASE threads[t].op = "record_metric" ->
                 [monitor_log EXCEPT !.completed = @ + 1,
                                  !.failed = IF threads[t].success THEN @ ELSE @ + 1]
            [] threads[t].op = "clear_metrics" ->
                 [monitor_log EXCEPT !.completed = 0, !.failed = 0]
            [] OTHER -> monitor_log
    /\ UNCHANGED ret
    /\ others_unchanged

NextMonitor ==
    \E t \in Threads :
        \/ \E success \in BOOLEAN : monitor_call(t, "record_metric", success)
        \/ monitor_call(t, "clear_metrics", TRUE)
        \/ monitor_call(t, "get_error_rate", TRUE)
        \/ monitor_acquire(t)
        \/ record_append(t)
        \/ record_stats(t)
        \/ record_load_total(t)
        \/ record_store_total(t)
        \/ record_load_error(t)
        \/ record_store_error(t)
        \/ clear_metrics_step(t)
        \/ get_error_rate_read(t)
        \/ monitor_release(t)

SpecMonitor == Init /\ [][NextMonitor]_vars

\* The conversation at length: one directory ingested, then questions in two
\* of the modes until the history has been full for ExtraCalls calls
LoadDocumentsOnce ==
    /\ Len(chunk_metadata) < MaxChunks
    /\ ~documents_loaded
    /\ load_documents([kind |-> "dir", files |-> <<DocA, DocB>>], "ok", "ok")

GenerateResponseLong ==
    /\ calls < HISTORY_LIMIT + ExtraCalls
    /\ \E q \in Queries : generate_response(q, TRUE, "ok", "ok")

SwitchModeStory ==
    \E k \in {"interview", "personal_storytelling"} : switch_mode(k)

NextHistory ==
    \/ LoadDocumentsOnce
    \/ SwitchModeStory
    \/ GenerateResponseLong

SpecHistory == Init /\ [][NextHistory]_vars

\* document_processor.py:149-164
chunk_text_call(raw, chunk_size, chunk_overlap) ==
    /\ chunking.pc = "idle"
    /\ chunking' = chunk_text_begin(raw, chunk_size, chunk_overlap)
    /\ UNCHANGED <<agent_vars, perf_vars>>

\* document_processor.py:166-195: one iteration; the loop is left when the next
\* start reaches the end of the text
chunk_text_iterate ==
    /\ chunking.pc = "loop"
    /\ chunking.start >= StartFloor
    /\ \E it \in {chunk_step(chunking.text, chunking.start, chunking.chunk_size,
                              chunking.chunk_overlap)} :
          chunking' = [chunking EXCEPT
                          !.pc = IF it.again THEN "loop" ELSE "returned",
                          !.start = it.start,
                          !.iterations = (@ + 1) % 2,
                          !.appended = it.appended,
                          !.span = IF it.appended # <<>> THEN it.span ELSE @,
                          !.previous = IF it.appended = <<>> THEN @
                                       ELSE IF chunking.span = <<0, 0>> THEN <<>>
                                       ELSE chunking.span]
    /\ UNCHANGED <<agent_vars, perf_vars>>

ChunkTextCall ==
    \E raw \in RawTexts, chunk_size \in ChunkSizes, chunk_overlap \in ChunkOverlaps :
        chunk_text_call(raw, chunk_size, chunk_overlap)

\* The chunker alone, on a DocumentProcessor of any configuration; a call that
\* has entered its loop keeps running
InitChunk ==
    /\ Init
    /\ model = "loaded"
    /\ vector_db = Index(<<>>)
    /\ openai_client = "mock"

NextChunk ==
    \/ ChunkTextCall
    \/ chunk_text_iterate

SpecChunk == InitChunk /\ [][NextChunk]_vars /\ WF_vars(chunk_text_iterate)

----------------------------------------------------------------------------
(* Properties *)

\* C1: generate_response never raises to its caller: every call returns a
\* Response whose confidence is high, medium or low, and an answer given after
\* the generation capability failed is the fallback's.
C1_GenerateResponseNeverRaises ==
    ret.op = "generate_response" =>
        /\ ~ret.raised
        /\ ret.value.confidence \in {"high", "medium", "low"}
        /\ ret.via \in {"upload_prompt", "llm", "fallback"}

\* C2: the vector store and the metadata store have the same length, record
\* for record, in every reachable state, whatever additions, saves and loads
\* (failed ones included) came before.
C2_StoresStayParallel ==
    vector_db.present =>
        /\ Len(vector_db.vectors) = Len(chunk_metadata)
        /\ Len(chunk_embeddings) = Len(chunk_metadata)

\* C3: a failure to embed or to insert during ingestion reaches the caller:
\* load_documents raises instead of returning.
C3_IngestionFailureSurfaced ==
    (ret.op = "load_documents" /\ ret.failed) => ret.raised

\* The text and the file of the chunk a metadata record was made for
OriginalChunk(metadata) ==
    CHOOSE c \in UNION {{process_document(d).chunks[i] :
                            i \in 1..process_document(d).total_chunks} :
                         d \in {DocA, DocB}} :
        c.metadata.filename = metadata.filename
            /\ c.metadata.chunk_index = metadata.chunk_index

\* C4: every search result carries the original text of the chunk it refers
\* to and that chunk's filename; with 'First chunk' (a.txt) and 'Second chunk'
\* (b.txt) indexed, the query 'First chunk' with top_k = 1 returns one result
\* with content 'First chunk' from a.txt.
C4_SearchReturnsChunkText ==
    ret.op = "search_knowledge_base" =>
        /\ \A n \in 1..Len(ret.value) :
              /\ ret.value[n].content = OriginalChunk(ret.value[n].metadata).content
              /\ ret.value[n].metadata.filename
                    = OriginalChunk(ret.value[n].metadata).metadata.filename
        /\ (Len(ret.value) = 1 /\ ret.query = "First chunk" /\ ret.top_k = 1
                /\ Len(chunk_metadata) = 2)
              => /\ ret.value[1].content = "First chunk"
                 /\ ret.value[1].metadata.filename = "a.txt"

\* C5: while documents_loaded is false, generate_response returns the fixed
\* upload prompt with no sources, the current mode and confidence low, without
\* searching the knowledge base or calling the generation capability.
C5_NoDocumentsUploadPrompt ==
    (ret.op = "generate_response" /\ ~ret.documents_loaded) =>
        /\ ~ret.raised
        /\ ret.value = [response |-> DOCUMENT_UPLOAD_PROMPT, sources |-> <<>>,
                        mode |-> ret.mode_before, confidence |-> "low"]
        /\ ~ret.searched
        /\ ret.via = "upload_prompt"
        /\ ret.turn = <<>>

C5_Witness ==
    /\ ret.op = "generate_response"
    /\ ~ret.documents_loaded
    /\ ret.mode_before = "fast_facts"
    /\ ret.value.response = DOCUMENT_UPLOAD_PROMPT

\* C6 as stated: confidence is high for a generated answer with non-empty
\* retrieval, medium for a fallback answer with non-empty retrieval, and low
\* whenever retrieval returned nothing or no documents are loaded, whichever
\* path produced the answer.
C6_LowWheneverRetrievalEmpty ==
    (ret.op = "generate_response" /\ ~ret.raised) =>
        ret.value.confidence =
            IF ~ret.documents_loaded \/ ret.search_results = <<>> THEN "low"
            ELSE IF ret.via = "llm" THEN "high"
            ELSE "medium"

\* C6 amended: confidence is high for a generated answer with non-empty
\* retrieval; medium for a generated answer with empty retrieval and for a
\* fallback answer with non-empty retrieval; low for a fallback answer with
\* empty retrieval and when no documents are loaded.
C6_ConfidenceRule ==
    (ret.op = "generate_response" /\ ~ret.raised) =>
        ret.value.confidence =
            IF ~ret.documents_loaded THEN "low"
            ELSE IF ret.via = "llm"
                 THEN (IF ret.search_results # <<>> THEN "high" ELSE "medium")
            ELSE (IF ret.search_results # <<>> THEN "medium" ELSE "low")

C6_Witness ==
    /\ ret.op = "generate_response"
    /\ ~ret.raised
    /\ ret.documents_loaded
    /\ ret.via = "llm"
    /\ ret.search_results = <<>>
    /\ ret.value.confidence = "medium"

\* C7 as stated: after n generate_response calls the history holds exactly
\* min(n, 10) turns.
C7_HistoryCountsEveryCall ==
    Len(pm_history) = Min(calls, HISTORY_LIMIT)

\* C7 amended: the history holds exactly min(m, 10) turns, where m counts the
\* generate_response calls that were made with documents loaded and returned
\* (a call made before documents are loaded records no turn); they are the
\* most recent of those turns in call order, so after 12 such calls the
\* history has 10 turns, the first two evicted.
C7_HistoryHoldsRecentRecordedTurns ==
    /\ Len(pm_history) = Min(Len(turn_log), HISTORY_LIMIT)
    /\ pm_history = SubSeq(turn_log, Len(turn_log) - Len(pm_history) + 1, Len(turn_log))
    /\ Len(turn_log) <= calls
    /\ ret.op = "generate_response" =>
          /\ (ret.turn # <<>>) <=> (ret.documents_loaded /\ ~ret.raised)
          /\ ret.turn # <<>> => pm_history[Len(pm_history)].user = ret.user_question

C7_Witness ==
    /\ Len(turn_log) = HISTORY_LIMIT + ExtraCalls
    /\ Len(pm_history) = HISTORY_LIMIT
    /\ pm_history[1] = turn_log[ExtraCalls + 1]
    /\ turn_log[1] # turn_log[ExtraCalls + 1]

\* C8 as stated: every generate_response call appends exactly one turn
\* {user: query, agent: text} and the agent text is the text of the Response
\* returned.
C8_EveryCallRecordsReturnedText ==
    [][calls' = calls + 1 =>
          /\ ~ret'.raised
          /\ pm_history' = Append(pm_history, [user |-> ret'.user_question,
                                               agent |-> ret'.value.response])]_vars

\* C8 amended: a generate_response call made with documents loaded that
\* returns appends exactly one turn {user: query, agent: text}, where text is
\* the answer before the source list is attached: the returned text equals it
\* when no sources are cited and is it followed by the "Sources:" list
\* otherwise; a call made before documents are loaded, or one that raises,
\* leaves the history as it was.
C8_CallRecordsAnswerText ==
    [][calls' = calls + 1 =>
          IF ret'.documents_loaded /\ ~ret'.raised
          THEN /\ pm_history' # <<>>
               /\ LET recorded == pm_history'[Len(pm_history')]
                      cited == ret'.value.sources
                      lines[n \in 0..Len(cited)] ==
                          IF n = 0 THEN ""
                          ELSE lines[n - 1] \o (IF n > 1 THEN "\n" ELSE "")
                                   \o "- " \o cited[n]
                  IN  /\ pm_history' =
                            (IF Len(pm_history) < HISTORY_LIMIT THEN pm_history
                             ELSE Tail(pm_history)) \o <<recorded>>
                      /\ recorded.user = ret'.user_question
                      /\ DOMAIN recorded = {"user", "agent"}
                      /\ ret'.value.response =
                            IF ret'.include_sources /\ cited # <<>>
                            THEN recorded.agent \o "\n\nSources:\n" \o lines[Len(cited)]
                            ELSE recorded.agent
          ELSE pm_history' = pm_history]_vars

C8_Witness ==
    /\ ret.op = "generate_response"
    /\ ret.documents_loaded
    /\ ~ret.raised
    /\ ret.include_sources
    /\ Len(ret.value.sources) = 2
    /\ pm_history # <<>>
    /\ pm_history[Len(pm_history)].user = ret.user_question
    /\ pm_history[Len(pm_history)].agent # ret.value.response

\* C9: switch_mode with a key that is not a mode returns a message containing
\* 'Unknown mode' and leaves current_mode as it was.
C9_UnknownModeRejected ==
    (ret.op = "switch_mode" /\ ret.new_mode \notin modes) =>
        /\ ~ret.raised
        /\ Contains(ret.value, "Unknown mode")
        /\ current_mode = ret.mode_before

C9_Witness ==
    /\ ret.op = "switch_mode"
    /\ ret.new_mode = "nonexistent"
    /\ ret.mode_before = "fast_facts"
    /\ current_mode = "fast_facts"

\* C10: switch_mode with one of the three mode keys makes it the current mode,
\* whatever the mode was, and returns a confirmation containing the mode's
\* display name; current_mode is always one of the three modes, and every mode
\* can be entered in one step from every state.
C10_KnownModeEntered ==
    /\ current_mode \in modes
    /\ (ret.op = "switch_mode" /\ ret.new_mode \in modes) =>
          /\ ~ret.raised
          /\ current_mode = ret.new_mode
          /\ Contains(ret.value, mode_name(ret.new_mode))
    /\ \A k \in modes : ENABLED (SwitchMode /\ current_mode' = k)

C10_Witness ==
    /\ ret.op = "switch_mode"
    /\ ret.new_mode = "personal_storytelling"
    /\ ret.mode_before = "fast_facts"
    /\ current_mode = "personal_storytelling"
    /\ Contains(ret.value, "Personal Storytelling")

\* chunk_size > 0 and 0 <= chunk_overlap < chunk_size, for the call in progress
ValidConfiguration ==
    /\ chunking.chunk_size > 0
    /\ 0 <= chunking.chunk_overlap
    /\ chunking.chunk_overlap < chunking.chunk_size

\* C11: chunk_text terminates for every text and every valid configuration:
\* the window start strictly advances on every iteration of the loop, and the
\* call returns.
C11_ChunkTextTerminates ==
    /\ [][(chunking.pc = "loop" /\ ValidConfiguration /\ chunking' # chunking)
              => chunking'.start > chunking.start]_vars
    /\ (chunking.pc = "loop" /\ ValidConfiguration) ~> (chunking.pc = "returned")

\* the number of characters of the text two ranges share
Shared(r1, r2) == Max(0, Min(r1[2], r2[2]) - Max(r1[1], r2[1]))

\* C12: under a valid configuration every chunk chunk_text emits is at most
\* chunk_size characters long, and two consecutive chunks share at most
\* chunk_overlap characters of the normalized text.
C12_ChunksBounded ==
    (chunking.pc # "idle" /\ ValidConfiguration) =>
        /\ \A n \in 1..Len(chunking.appended) :
              Len(chunking.appended[n]) <= chunking.chunk_size
        /\ (chunking.appended # <<>> /\ chunking.previous # <<>>) =>
              Shared(chunking.previous, chunking.span) <= chunking.chunk_overlap

C12_Witness ==
    /\ chunking.pc = "loop"
    /\ ValidConfiguration
    /\ chunking.appended # <<>>
    /\ chunking.previous # <<>>
    /\ Len(chunking.appended[1]) = chunking.chunk_size
    /\ chunking.chunk_overlap > 0
    /\ Shared(chunking.previous, chunking.span) = chunking.chunk_overlap

\* C13: with chunk_size <= 0 or chunk_overlap outside [0, chunk_size) the
\* chunker fails fast with a configuration error and produces no chunk.
C13_InvalidConfigurationRejected ==
    (chunking.pc # "idle" /\ ~ValidConfiguration) =>
        /\ chunking.pc = "raised"
        /\ chunking.appended = <<>>

\* the vector store and the metadata store hold nothing
ZeroRecords == vector_db.vectors = <<>> /\ chunk_metadata = <<>>

NeverPopulated ==
    /\ ZeroRecords
    /\ disk_faiss = NoIndex
    /\ disk_pkl = NoPickle

\* C15: search_knowledge_base never raises; while the index has never been
\* populated it returns [] without invoking the index search, and when the
\* index search fails (the embedding model being unavailable included) it
\* returns [] instead of propagating.
C15_RetrievalNeverSearchesUnpopulated ==
    ret.op = "search_knowledge_base" =>
        /\ ~ret.raised
        /\ NeverPopulated => (~ret.searched /\ ret.value = <<>>)
        /\ model = "None" => ret.value = <<>>

\* the files at p hold the vectors and the metadata of the system, in order
DiskHoldsStores ==
    /\ disk_faiss.vectors = vector_db.vectors
    /\ disk_pkl.chunk_embeddings = chunk_embeddings
    /\ disk_pkl.chunk_metadata = chunk_metadata

C17_PersistenceFailureSurfaced ==
    (ret.op \in {"save_knowledge_base", "load_knowledge_base"} /\ ret.failed) =>
        /\ ret.raised
        /\ ret.op = "load_knowledge_base" => ~knowledge_base_initialized

\* C18: the sources of a Response are the filenames of the retrieved chunks in
\* retrieval order, one entry per retrieved chunk and duplicates kept, whether
\* the answer was generated or is the fallback, and empty when nothing was
\* retrieved.
C18_SourcesFollowRetrieval ==
    (ret.op = "generate_response" /\ ~ret.raised) =>
        /\ Len(ret.value.sources) = Len(ret.search_results)
        /\ \A i \in 1..Len(ret.search_results) :
              ret.value.sources[i] = ret.search_results[i].metadata.filename
        /\ ret.via \in {"llm", "fallback"} <=> ret.documents_loaded

\* a generated answer over two chunks of the same file names the file twice
C18_Witness ==
    /\ ret.op = "generate_response"
    /\ ~ret.raised
    /\ ret.via = "llm"
    /\ Len(ret.search_results) = 2
    /\ ret.value.sources = <<"a.txt", "a.txt">>

\* C19: get_database_info returns the not-initialized status whenever there is
\* no embedding model or no vector store, and otherwise total_vectors,
\* dimension and total_chunks; a system whose model failed to load at
\* construction has no vector store either.
C19_InfoNotInitializedWithoutModel ==
    ret.op = "get_knowledge_base_info" =>
        /\ IF model = "None" \/ ~vector_db.present
           THEN ret.value = [status |-> "not_initialized", type |-> "faiss"]
           ELSE ret.value = [type |-> "faiss",
                             total_vectors |-> Len(vector_db.vectors),
                             dimension |-> DIMENSION,
                             total_chunks |-> Len(chunk_metadata)]
        /\ (model = "None" /\ ~knowledge_base_initialized) => ~vector_db.present

\* the L2 norm of v / |v| is 1 exactly when |v| is not zero
UnitNorm(stored) == stored.len2 > 0

\* C20: after add_documents every vector held in the store has L2 norm 1,
\* for every batch of embeddings the embedding capability can return, the
\* copies kept in chunk_embeddings included.
C20_StoredVectorsUnitNorm ==
    /\ \A i \in 1..Len(vector_db.vectors) : UnitNorm(vector_db.vectors[i])
    /\ \A i \in 1..Len(chunk_embeddings) : UnitNorm(chunk_embeddings[i])

\* C21: constructing the agent never fails for lack of a provider: for every
\* llm_provider value and every combination of API keys and MOCK_MODE, at least
\* one generation client is set after construction, and the mock client is
\* openai_client whenever no real client was built.
C21_SomeClientAfterConstruction ==
    (ret.op = "__init__" /\ "llm_provider" \in DOMAIN ret) =>
        /\ ~ret.raised
        /\ openai_client # "None" \/ anthropic_client # "None"
        /\ (openai_client # "openai" /\ anthropic_client # "anthropic")
              => openai_client = "mock"
        /\ (ret.env.mock_mode \/ ret.llm_provider \in {"none", "invalid"})
              => (openai_client = "mock" /\ anthropic_client = "None")

\* an unknown provider with a usable OpenAI key ends with the mock client
C21_Witness ==
    /\ ret.op = "__init__"
    /\ "llm_provider" \in DOMAIN ret
    /\ ret.llm_provider = "invalid"
    /\ ~ret.env.mock_mode
    /\ ret.env.openai_key = "sk-key"
    /\ ret.env.openai_sdk
    /\ ret.env.ctor_ok
    /\ openai_client = "mock"

\* the first retrieved chunk's content cut to 100 characters (agent.py:479)
FallbackContext(search_results) ==
    PySlice(search_results[1].content, 0, CONTEXT_CHARS) \o "..."

\* C22: the deterministic fallback returns, with empty retrieval, the fixed
\* 'not enough information' message with no sources and confidence low, and
\* with non-empty retrieval, in each of the three modes, that mode's template
\* filled with the first retrieved chunk's content and the fixed phrases, with
\* confidence medium and the current mode.
C22_FallbackFillsModeTemplate ==
    (ret.op = "generate_response" /\ ret.via = "fallback") =>
        /\ ~ret.raised
        /\ ret.value.mode = ret.mode_before
        /\ IF ret.search_results = <<>>
           THEN /\ ret.value.response = NOT_ENOUGH_INFORMATION
                /\ ret.value.sources = <<>>
                /\ ret.value.confidence = "low"
           ELSE /\ ret.value.confidence = "medium"
                /\ ret.turn[1].agent =
                     CASE ret.mode_before = "interview" ->
                            "Based on my experience, I can tell you that "
                            \o FallbackContext(ret.search_results)
                            \o ". This demonstrates my relevant skills and professional achievements."
                       [] ret.mode_before = "fast_facts" ->
                            "Key points about this:\n* "
                            \o FallbackContext(ret.search_results)
                            \o "\n* relevant skills\n* professional achievements"
                       [] ret.mode_before = "personal_storytelling" ->
                            "From my personal experience, I remember "
                            \o FallbackContext(ret.search_results)
                            \o PySlice(ret.turn[1].agent,
                                       Len("From my personal experience, I remember "
                                           \o FallbackContext(ret.search_results)),
                                       Len(ret.turn[1].agent))

\* C23: the mode changes only by an explicit switch_mode call: a
\* generate_response call leaves current_mode as it was and the mode field of
\* its Response is the mode at the time of the call; a switch_mode call
\* changes nothing but current_mode: the conversation history, both flags, the
\* index and the clients stay as they were.
C23_ModeChangesOnlyBySwitch ==
    [][/\ current_mode' # current_mode => ret'.op = "switch_mode"
       /\ ret'.op = "generate_response" =>
             /\ current_mode' = current_mode
             /\ ~ret'.raised => ret'.value.mode = current_mode
       /\ ret'.op = "switch_mode" =>
             /\ pm_history' = pm_history
             /\ documents_loaded' = documents_loaded
             /\ knowledge_base_initialized' = knowledge_base_initialized
             /\ UNCHANGED <<index_vars, disk_vars, client_vars>>]_vars

\* a generated answer in a mode entered by switch_mode, after an earlier turn
C23_Witness ==
    /\ ret.op = "generate_response"
    /\ ~ret.raised
    /\ ret.via = "llm"
    /\ ret.mode_before = "fast_facts"
    /\ ret.value.mode = "fast_facts"
    /\ current_mode = "fast_facts"
    /\ Len(pm_history) = 2

\* C24: an agent whose generation client is the MockLLMClient, with documents
\* loaded, has generate_response invoke the mock client: the text recorded for
\* the turn is the one MockLLMClient produces for the question and the current
\* mode, not the fallback template.
C24_MockClientAnswers ==
    (ret.op = "generate_response" /\ ret.documents_loaded /\ openai_client = "mock") =>
        /\ ~ret.raised
        /\ ret.via = "llm"
        /\ ret.turn[1].agent = mock_generate_response(ret.user_question, ret.mode_before)

\* C25: whenever documents_loaded is true the index holds at least one record:
\* load_documents returns True and sets documents_loaded and
\* knowledge_base_initialized only if the chunks were embedded and added to
\* the vector store.
C25_LoadedMeansIndexed ==
    /\ documents_loaded =>
          (vector_db.present /\ Len(vector_db.vectors) >= 1 /\ Len(chunk_metadata) >= 1)
    /\ (ret.op = "load_documents" /\ ret.value = TRUE) => ~ret.failed

\* the agent ingested nothing itself and holds records: they were restored by
\* load_knowledge_base from the files an earlier agent saved
RestoredIndex ==
    /\ ~documents_loaded
    /\ knowledge_base_initialized
    /\ vector_db.vectors # <<>>
    /\ chunk_metadata # <<>>
    /\ vector_db = disk_faiss
    /\ chunk_metadata = disk_pkl.chunk_metadata

\* C26: after load_knowledge_base has restored a saved, non-empty index into a
\* freshly constructed agent, generate_response answers from retrieval over
\* the restored index and does not return the upload prompt.
C26_RestoredIndexIsAnsweredFrom ==
    (ret.op = "generate_response" /\ RestoredIndex) =>
        /\ ret.via # "upload_prompt"
        /\ ret.searched
        /\ ~ret.raised => ret.value.response # DOCUMENT_UPLOAD_PROMPT

\* C27: get_conversation_summary reports the real conversation: total_turns
\* is the number of turns held in the history generate_response appends to,
\* and recent_topics are made from its last 3 user messages.
C27_SummaryReportsConversation ==
    ret.op = "get_conversation_summary" =>
        /\ ret.value.total_turns = Len(pm_history)
        /\ ret.value.recent_topics =
              [i \in 1..Len(LastTurns(pm_history, 3)) |->
                  PySlice(LastTurns(pm_history, 3)[i].user, 0, 50) \o "..."]

\* C28: chunk_text loses no text and keeps the order of the document: for a
\* text longer than chunk_size and a valid configuration, the window start is
\* never negative and never decreases, the next window starts no later than
\* the end of the current one (no gap), and the loop is left only by a window
\* that reaches the end of the text.
C28_WindowsCoverTextInOrder ==
    [][(chunking.pc = "loop" /\ ValidConfiguration /\ chunking' # chunking) =>
          /\ chunking.start >= 0
          /\ chunking'.start >= 0
          /\ chunking'.start >= chunking.start
          /\ \E it \in {chunk_step(chunking.text, chunking.start,
                                   chunking.chunk_size, chunking.chunk_overlap)} :
                /\ chunking'.start <= it.end
                /\ chunking'.pc = "returned" => it.end >= Len(chunking.text)]_vars

\* C29: the CacheManager never holds more than max_size entries: after any
\* sequence of set (with or without ttl), get and clear calls the cache has at
\* most max_size keys, the keys of access_times are the keys of cache, and the
\* size get_stats reports is the number of cached values.
C29_CacheWithinMaxSize ==
    /\ Cardinality(DOMAIN cache_manager.cache) <= cache_manager.max_size
    /\ DOMAIN cache_manager.access_times = DOMAIN cache_manager.cache
    /\ ret.op = "CacheManager.get_stats" =>
          ret.value.size = Cardinality(DOMAIN cache_manager.cache \cap CacheKeys)

\* C30: under any interleaving of concurrent record_metric, get_error_rate and
\* clear_metrics calls, the counters of the PerformanceMonitor are consistent
\* whenever no call is inside the monitor: since the last clear_metrics,
\* total_calls is the number of completed record_metric calls, error_count the
\* number of those with success false, and len(metrics) is
\* min(total_calls, max_metrics); the rate get_error_rate computes is of
\* error_count <= total_calls.
C30_MonitorCountersConsistent ==
    /\ performance_monitor.lock = 0 =>
          /\ performance_monitor.total_calls = monitor_log.completed
          /\ performance_monitor.error_count = monitor_log.failed
          /\ performance_monitor.error_count <= performance_monitor.total_calls
          /\ Len(performance_monitor.metrics)
                = Min(performance_monitor.total_calls, performance_monitor.max_metrics)
          /\ performance_monitor.stats = performance_monitor.total_calls
    /\ \A t \in Threads :
          threads[t].pc \notin {"idle", "acquire"} => performance_monitor.lock = t
    /\ ret.op = "get_error_rate" => ret.value[1] <= ret.value[2]

\* more metrics recorded than the deque keeps, one of them a failure, while
\* another thread waits to enter
C30_Witness ==
    /\ performance_monitor.lock = 0
    /\ performance_monitor.total_calls > performance_monitor.max_metrics
    /\ performance_monitor.error_count >= 1
    /\ Len(performance_monitor.metrics) = performance_monitor.max_metrics
    /\ \E t \in Threads : threads[t].pc = "acquire"

====
